---- MODULE Spec2Model ----
(***************************************************************************)
(* senklot: access-state engine, hosts reconciliation, restriction grammar *)
(* and the daemon's event loop.                                            *)
(*                                                                         *)
(* Text is modelled as sequences of one-character strings, so that the     *)
(* parsers (nom combinators in the source) are computed character by       *)
(* character.  Time is counted in whole minutes; chrono compares at finer  *)
(* resolution, but every configured instant is a whole minute, so          *)
(* comparing the minute-truncated clock gives the same answers.            *)
(*                                                                         *)
(* The loop is main_loop of main.rs; the State it drives, the hosts        *)
(* document and the grammar are those of state.rs and config.rs.  A        *)
(* handler is one atomic step: it runs on a copy of the State and the two  *)
(* files (Engine) that also logs what the handler did, and the step ends   *)
(* by storing the copy and leaving the log in ev.  An I/O operation may    *)
(* fail: each handler step picks the kind of operation that fails if the   *)
(* handler gets to it.                                                     *)
(***************************************************************************)
EXTENDS Integers, Sequences, FiniteSets, TLC

\* ------------------------------------------------------------------------
\* Bounds of the model
\* ------------------------------------------------------------------------

\* longest duration token enumerated exhaustively by the grammar specification
MaxDurLen == 4

\* number of clock steps a run may take
MaxAdvance == 2

\* longest hosts file (in lines) a handler may produce
MaxLines == 5

\* number of clients that connect to the socket, one request each
MaxClients == 2


VARIABLES
    config,         \* Config: entries, after_lock, after_unlock (read-only after load)
    entry_order,    \* iteration order of config.entries (a HashMap)
    domain_map,     \* State.domain_map: domain -> entry name
    domain_order,   \* iteration order of domain_map.keys() (a HashMap)
    is_locked,      \* State.is_locked: sparse map name -> bool
    last_unlocked,  \* State.last_unlocked: sparse map name -> time
    last_locked,    \* State.last_locked: sparse map name -> time
    etc_hosts,      \* content of /etc/hosts
    state_file,     \* content of the persisted state file
    now,            \* the wall clock (Local::now()), in minutes
    watch,          \* whether a file-watch event waits to be received by the loop
    pc,             \* "start", "failed" (start-up), or the loop: "select", an arm of
                    \* select!, "handled", "exited", "panicked"
    ev,             \* what the arm of this iteration of the loop did
    probe,          \* input and result of a pure function under test
    ticker,         \* whether the tick channel holds a message
    signal,         \* the ctrlc handler: "none", "sending" (blocked in send), "received"
    clients,        \* per client of the socket: how far its request has got
    backlog,        \* connections made and not yet accepted, oldest first
    worker,         \* the accept worker: where it is, its connection, its buffer
    handoff,        \* the messages the unlock_request channel holds
    msg             \* the message the unlock_request arm has received

\* what is fixed once the daemon has started
loaded == <<config, entry_order, domain_map, domain_order>>

\* the State the loop owns, and the two files it writes
engine == <<is_locked, last_unlocked, last_locked, etc_hosts, state_file>>

\* the threads around the loop and their channels
threads == <<ticker, signal, clients, backlog, worker, handoff, msg>>

vars == <<loaded, engine, now, watch, pc, ev, probe, threads>>

\* ------------------------------------------------------------------------
\* Characters and small helpers
\* ------------------------------------------------------------------------

Digits == {"0", "1", "2", "3", "4", "5", "6", "7", "8", "9"}

DigitVal(c) ==
    CASE c = "0" -> 0 [] c = "1" -> 1 [] c = "2" -> 2 [] c = "3" -> 3
      [] c = "4" -> 4 [] c = "5" -> 5 [] c = "6" -> 6 [] c = "7" -> 7
      [] c = "8" -> 8 [] c = "9" -> 9

RECURSIVE Pow10(_)
Pow10(k) == IF k = 0 THEN 1 ELSE 10 * Pow10(k - 1)

\* value of a run of decimal digits
RECURSIVE DecVal(_)
DecVal(s) ==
    IF s = <<>> THEN 0
    ELSE 10 * DecVal(SubSeq(s, 1, Len(s) - 1)) + DigitVal(s[Len(s)])

\* all sequences over alphabet A of length exactly n
RECURSIVE SeqsOfLen(_, _)
SeqsOfLen(A, n) ==
    IF n = 0 THEN {<<>>}
    ELSE {Append(s, c) : s \in SeqsOfLen(A, n - 1), c \in A}

\* ------------------------------------------------------------------------
\* config.rs: static windows
\* ------------------------------------------------------------------------

MinutesPerHour == 60
HoursPerDay == 24
MinutesPerDay == HoursPerDay * MinutesPerHour

\* a time of day (chrono NaiveTime at minute resolution) as minutes since 00:00
HM(h, m) == h * MinutesPerHour + m

\* StaticDuration::contains, the branch taken when begin >= end
containsWrap(begin, end, t) == end <= t \/ t < begin

\* StaticDuration::contains
contains(begin, end, t) ==
    IF begin < end
    THEN begin <= t /\ t < end
    ELSE containsWrap(begin, end, t)

\* ------------------------------------------------------------------------
\* config.rs: the restriction grammar
\* ------------------------------------------------------------------------

\* u32::from_str on the two characters taken by take!(2): an optional "+"
\* followed by decimal digits
two_digits(s, i) ==
    IF i + 1 > Len(s) THEN [ok |-> FALSE, val |-> 0, next |-> i]
    ELSE IF s[i] \in Digits /\ s[i + 1] \in Digits
         THEN [ok |-> TRUE, val |-> 10 * DigitVal(s[i]) + DigitVal(s[i + 1]), next |-> i + 2]
    ELSE IF s[i] = "+" /\ s[i + 1] \in Digits
         THEN [ok |-> TRUE, val |-> DigitVal(s[i + 1]), next |-> i + 2]
    ELSE [ok |-> FALSE, val |-> 0, next |-> i]

\* the largest hour value the closure of time lets through (h > 23 rejects)
MaxHourAccepted == 23

\* the largest minute value the closure of time lets through (m > 60 rejects)
MaxMinuteAccepted == 60

\* chrono's NaiveTime::from_hms: panics unless hour < 24 and minute < 60
from_hms(h, m) ==
    IF h < HoursPerDay /\ m < MinutesPerHour
    THEN [kind |-> "time", h |-> h, m |-> m]
    ELSE [kind |-> "panic", h |-> h, m |-> m]

\* the parser time, applied at position i of s.  kind is "error" (nom error,
\* surfaced as a config error), "time" (a Time value) or "panic"
time(s, i) ==
    LET h == two_digits(s, i)
        colon == h.ok /\ h.next <= Len(s) /\ s[h.next] = ":"
        m == two_digits(s, h.next + 1)
    IN  IF ~h.ok \/ ~colon \/ ~m.ok
        THEN [kind |-> "error", h |-> 0, m |-> 0, next |-> i]
        ELSE IF h.val > MaxHourAccepted \/ m.val > MaxMinuteAccepted
        THEN [kind |-> "error", h |-> 0, m |-> 0, next |-> i]
        ELSE [kind |-> from_hms(h.val, m.val).kind, h |-> h.val, m |-> m.val,
              next |-> m.next]

\* all_consuming(static_duration): <time>-<time> and nothing after it
static_duration(s) ==
    LET b == time(s, 1)
        dash == b.kind = "time" /\ b.next <= Len(s) /\ s[b.next] = "-"
        e == time(s, b.next + 1)
    IN  IF b.kind = "panic" THEN [kind |-> "panic", begin |-> 0, end |-> 0]
        ELSE IF b.kind = "error" \/ ~dash THEN [kind |-> "error", begin |-> 0, end |-> 0]
        ELSE IF e.kind = "panic" THEN [kind |-> "panic", begin |-> 0, end |-> 0]
        ELSE IF e.kind = "error" \/ e.next # Len(s) + 1
             THEN [kind |-> "error", begin |-> 0, end |-> 0]
        ELSE [kind |-> "window", begin |-> HM(b.h, b.m), end |-> HM(e.h, e.m)]

\* end of the maximal run of digits starting at i (digit0 / digit1)
RECURSIVE DigitsEnd(_, _)
DigitsEnd(s, i) ==
    IF i <= Len(s) /\ s[i] \in Digits THEN DigitsEnd(s, i + 1) ELSE i

\* the parser float: digit1 opt("." digit0), read by f64::from_str.  The
\* value is kept exactly as whole + fracNum / fracDen; with the few digits
\* enumerated here f64 represents trunc() and fract()/60 without rounding
\* across an integer.
float(s) ==
    LET w == DigitsEnd(s, 1)
        dot == w <= Len(s) /\ s[w] = "."
        f == IF dot THEN DigitsEnd(s, w + 1) ELSE w
    IN  IF w = 1 THEN [ok |-> FALSE, whole |-> 0, fracNum |-> 0, fracDen |-> 1, next |-> 1]
        ELSE [ok |-> TRUE,
              whole |-> DecVal(SubSeq(s, 1, w - 1)),
              fracNum |-> IF dot THEN DecVal(SubSeq(s, w + 1, f - 1)) ELSE 0,
              fracDen |-> IF dot THEN Pow10(f - w - 1) ELSE 1,
              next |-> f]

\* the minutes the Hours arm adds: (d.fract() / 60.).trunc()
fractMinutes(fracNum, fracDen) == fracNum \div (fracDen * MinutesPerHour)

\* all_consuming(mh_duration): the duration in minutes
mh_duration(s) ==
    LET d == float(s)
        hasUnit == d.ok /\ d.next = Len(s) /\ s[d.next] \in {"h", "m"}
    IN  IF ~hasUnit THEN [ok |-> FALSE, minutes |-> 0]
        ELSE IF s[d.next] = "m" THEN [ok |-> TRUE, minutes |-> d.whole]
        ELSE [ok |-> TRUE,
              minutes |-> d.whole * MinutesPerHour + fractMinutes(d.fracNum, d.fracDen)]

\* ------------------------------------------------------------------------
\* state.rs: the hosts file (Hosts) and its line grammar
\* ------------------------------------------------------------------------

IsSpace(c) == c \in {" ", "\t"}

\* none_of("\t #")
IsTokenChar(c) == c \notin {"\t", " ", "#"}

\* space0 / space1: end of the run of blanks starting at i
RECURSIVE SpaceEnd(_, _)
SpaceEnd(s, i) ==
    IF i <= Len(s) /\ IsSpace(s[i]) THEN SpaceEnd(s, i + 1) ELSE i

\* addr_domain: end of the maximal run of token characters starting at i
RECURSIVE TokenEnd(_, _)
TokenEnd(s, i) ==
    IF i <= Len(s) /\ IsTokenChar(s[i]) THEN TokenEnd(s, i + 1) ELSE i

\* locked_host applied at position i: space0, addr_domain, space1, addr_domain.
\* Whatever follows the domain token is left unparsed and ignored.
locked_host(s, i) ==
    LET a0 == SpaceEnd(s, i)
        a1 == TokenEnd(s, a0)
        d0 == SpaceEnd(s, a1)
        d1 == TokenEnd(s, d0)
    IN  IF a1 > a0 /\ d0 > a1 /\ d1 > d0
        THEN [ok |-> TRUE, domain |-> SubSeq(s, d0, d1 - 1), host |-> "Locked"]
        ELSE [ok |-> FALSE, domain |-> <<>>, host |-> "Locked"]

\* comment_out: space0, "#", locked_host
comment_out(s) ==
    LET h == SpaceEnd(s, 1)
        r == locked_host(s, h + 1)
    IN  IF h <= Len(s) /\ s[h] = "#" /\ r.ok
        THEN [ok |-> TRUE, domain |-> r.domain, host |-> "CommentedOut"]
        ELSE [ok |-> FALSE, domain |-> <<>>, host |-> "CommentedOut"]

\* host: alt(locked_host, comment_out)
host(s) == IF locked_host(s, 1).ok THEN locked_host(s, 1) ELSE comment_out(s)

\* str::lines: the text split at "\n"; a final line needs no terminator and
\* a terminator at the very end starts no further line
RECURSIVE SplitLines(_, _, _)
SplitLines(s, i, cur) ==
    IF i > Len(s) THEN (IF cur = <<>> THEN <<>> ELSE <<cur>>)
    ELSE IF s[i] = "\n" THEN <<cur>> \o SplitLines(s, i + 1, <<>>)
    ELSE SplitLines(s, i + 1, Append(cur, s[i]))

Lines(s) == SplitLines(s, 1, <<>>)

\* [String]::join("\n")
RECURSIVE Join(_)
Join(ls) ==
    IF ls = <<>> THEN <<>>
    ELSE IF Len(ls) = 1 THEN ls[1]
    ELSE ls[1] \o <<"\n">> \o Join(Tail(ls))

\* host applied to every line from line i on
RECURSIVE ParseLines(_, _)
ParseLines(ls, i) ==
    IF i > Len(ls) THEN <<>> ELSE <<host(ls[i])>> \o ParseLines(ls, i + 1)

\* Hosts::parse: the lines, and what each line was recognised as.  The map
\* hosts of the source is read off marks by HostsGet.
HostsParse(content) ==
    LET ls == Lines(content)
    IN  [hosts_file |-> ls, marks |-> ParseLines(ls, 1)]

\* self.hosts.get(domain): the number of the last line recognised as a line
\* of domain (HashMap::insert replaces an earlier line by a later one), 0 for None
HostsGet(h, domain) ==
    LET hits == {i \in 1..Len(h.marks) : h.marks[i].ok /\ h.marks[i].domain = domain}
    IN  IF hits = {} THEN 0 ELSE CHOOSE i \in hits : \A j \in hits : j <= i

\* Hosts::is_locked
HostsIsLocked(h, domain) ==
    LET line == HostsGet(h, domain)
    IN  IF line = 0 THEN FALSE ELSE h.marks[line].host = "Locked"

Loopback == <<"1", "2", "7", ".", "0", ".", "0", ".", "1">>

\* Hosts::host_line
host_line(domain, locked) ==
    IF locked THEN Loopback \o <<" ">> \o domain
    ELSE <<"#", " ">> \o Loopback \o <<" ">> \o domain

\* Hosts::write_state: rewrite the domain's line in place, or append one
write_state(h, domain, locked) ==
    LET line == HostsGet(h, domain)
    IN  IF line # 0
        THEN [h EXCEPT !.hosts_file[line] = host_line(domain, locked)]
        ELSE [h EXCEPT !.hosts_file = Append(h.hosts_file, host_line(domain, locked))]

\* Hosts::export
HostsExport(h) == Join(h.hosts_file)

\* ------------------------------------------------------------------------
\* state.rs: State
\* ------------------------------------------------------------------------

\* MutDict::set: insert or replace by key
MapSet(m, k, v) == [x \in (DOMAIN m) \cup {k} |-> IF x = k THEN v ELSE m[x]]

EmptyMap == [x \in {} |-> TRUE]

\* State::empty, and what bincode::deserialize(..).unwrap_or(State::empty())
\* yields for a missing or undecodable blob
EmptyState == [is_locked |-> EmptyMap, last_unlocked |-> EmptyMap, last_locked |-> EmptyMap]

\* State::export: the three serialised maps (domain_map and path are skipped)
StateExport(st) ==
    [kind |-> "state", is_locked |-> st.is_locked, last_unlocked |-> st.last_unlocked,
     last_locked |-> st.last_locked]

\* the part of the daemon an engine call works on, with a log of its effects
Engine ==
    [is_locked |-> is_locked, last_unlocked |-> last_unlocked, last_locked |-> last_locked,
     etc_hosts |-> etc_hosts, state_file |-> state_file,
     res |-> "ok", commits |-> 0, writes |-> 0, saves |-> 0, fired |-> <<>>,
     attempts |-> <<>>, errors |-> <<>>, responses |-> <<>>, nth |-> 1]

\* the kind of I/O step that fails while one handler of the loop runs, when
\* the handler gets to such a step: reading /etc/hosts, writing it, writing
\* the state file, spawning a trigger
Faults == {"none", "read", "write", "save", "spawn"}

\* State::domanin_is_locked
domanin_is_locked(st, domain) ==
    IF domain \in DOMAIN domain_map /\ domain_map[domain] \in DOMAIN st.is_locked
    THEN st.is_locked[domain_map[domain]]
    ELSE FALSE

\* a reconciliation that takes the document's word for it: the entry of the
\* domain is given the state its line shows, and no line is written
ReconcileFromHosts(st, h, domain, lock_state) ==
    [st |-> [st EXCEPT !.is_locked = MapSet(@, domain_map[domain], ~lock_state)],
     hosts |-> h]

\* the body of the loop of State::commit for a domain whose line differs from
\* the State: the State (borrowed as &self) stays, the line is written
Reconcile(st, h, domain, lock_state) ==
    [st |-> st, hosts |-> write_state(h, domain, lock_state)]

\* the loop of State::commit over domain_map.keys(), from position i
RECURSIVE CommitLoop(_, _, _, _)
CommitLoop(st, h, changed, i) ==
    IF i > Len(domain_order) THEN [st |-> st, hosts |-> h, state_is_changed |-> changed]
    ELSE LET domain == domain_order[i]
             lock_state == domanin_is_locked(st, domain)
             Reconciled(r) == CommitLoop(r.st, r.hosts, TRUE, i + 1)
         IN  IF lock_state # HostsIsLocked(h, domain)
             THEN Reconciled(Reconcile(st, h, domain, lock_state))
             ELSE CommitLoop(st, h, changed, i + 1)

\* a commit that saves whether or not its loop changed a line
CommitSavesAlways(state_is_changed) == TRUE

\* whether State::commit goes on to save after its loop
CommitSaves(state_is_changed) == state_is_changed

\* State::commit
commit(st, fault) ==
    LET Written(s0, r) ==
            [s0 EXCEPT !.etc_hosts = HostsExport(r.hosts), !.writes = @ + 1]
        Saved(s1) ==
            IF fault = "save" THEN [s1 EXCEPT !.res = "io_save"]
            ELSE [s1 EXCEPT !.res = "ok", !.state_file = StateExport(s1), !.saves = @ + 1]
        Finish(s0, r) ==
            IF ~CommitSaves(r.state_is_changed) THEN [s0 EXCEPT !.res = "ok"]
            ELSE IF fault = "write" THEN [s0 EXCEPT !.res = "io_write"]
            ELSE Saved(Written(s0, r))
        AfterLoop(r) == Finish([r.st EXCEPT !.commits = @ + 1], r)
    IN  IF fault = "read" THEN [st EXCEPT !.commits = @ + 1, !.res = "io_read"]
        ELSE AfterLoop(CommitLoop(st, HostsParse(st.etc_hosts), FALSE, 1))

\* excute_command, reached only when the trigger is configured
Trigger(st, cmd, kind, name, fault) ==
    IF cmd = "none" THEN [st EXCEPT !.res = "ok"]
    ELSE IF fault = "spawn" THEN [st EXCEPT !.res = "io_spawn"]
    ELSE [st EXCEPT !.res = "ok", !.fired = Append(@, <<kind, name>>)]

IsDynamic(entry) == entry.restriction.type = "Dynamic"

\* a trigger that is run whatever commit returned, the error of commit being
\* returned after it
AfterCommitAlways(s3, cmd, kind, name, fault) ==
    IF s3.res # "ok" THEN [Trigger(s3, cmd, kind, name, fault) EXCEPT !.res = s3.res]
    ELSE Trigger(s3, cmd, kind, name, fault)

\* an end that takes the new is_locked back when commit has failed
AfterCommitRollsBack(s3, cmd, kind, name, fault) ==
    IF s3.res # "ok" THEN [s3 EXCEPT !.is_locked = MapSet(@, name, kind = "after_unlock")]
    ELSE Trigger(s3, cmd, kind, name, fault)

\* the end of State::unlock and State::lock: self.commit()? returns the error
\* of commit, and the trigger is run only past it
AfterCommit(s3, cmd, kind, name, fault) ==
    IF s3.res # "ok" THEN s3
    ELSE Trigger(s3, cmd, kind, name, fault)

\* a cooldown test that measures against period instead of cool_time
CoolingDownByPeriod(st, name, entry, t) ==
    /\ entry.restriction.type = "Dynamic"
    /\ name \in DOMAIN st.last_unlocked
    /\ t < st.last_unlocked[name] + entry.restriction.period

\* the cooldown test of State::unlock
CoolingDown(st, name, entry, t) ==
    /\ IsDynamic(entry)
    /\ name \in DOMAIN st.last_unlocked
    /\ t < st.last_unlocked[name] + entry.restriction.cool_time

\* an early return that has lost its negation
AlreadyUnlockedInverted(st, name) == name \in DOMAIN st.is_locked /\ st.is_locked[name]

\* the early return of State::unlock
AlreadyUnlocked(st, name) == name \in DOMAIN st.is_locked /\ ~st.is_locked[name]

\* State::unlock
unlock(st, name, entry, after_unlock, t, fault) ==
    IF AlreadyUnlocked(st, name) THEN [st EXCEPT !.res = "ok"]
    ELSE IF CoolingDown(st, name, entry, t) THEN [st EXCEPT !.res = "cooldown"]
    ELSE LET s1 == [st EXCEPT !.is_locked = MapSet(@, name, FALSE)]
             s2 == IF IsDynamic(entry)
                   THEN [s1 EXCEPT !.last_unlocked = MapSet(@, name, t)]
                   ELSE s1
         IN  AfterCommit(commit(s2, fault), after_unlock, "after_unlock", name, fault)

\* an early return that takes an entry without a record for locked
AlreadyLockedOrAbsent(st, name) == name \notin DOMAIN st.is_locked \/ st.is_locked[name]

\* the early return of State::lock
AlreadyLocked(st, name) == name \in DOMAIN st.is_locked /\ st.is_locked[name]

\* State::lock
lock(st, name, entry, after_lock, t, fault) ==
    IF AlreadyLocked(st, name) THEN [st EXCEPT !.res = "ok"]
    ELSE LET s1 == [st EXCEPT !.is_locked = MapSet(@, name, TRUE)]
             s2 == IF IsDynamic(entry)
                   THEN [s1 EXCEPT !.last_locked = MapSet(@, name, t)]
                   ELSE s1
         IN  AfterCommit(commit(s2, fault), after_lock, "after_lock", name, fault)

\* unlock.iter().any(|d| d.contains(&now))
InAnyWindow(windows, t) ==
    \E i \in 1..Len(windows) :
        contains(windows[i].begin, windows[i].end, t % MinutesPerDay)

\* a period that still runs at the instant it ends
PeriodRunningAtEnd(st, name, entry, t) ==
    t <= st.last_unlocked[name] + entry.restriction.period

\* a period that is over as soon as it has begun
PeriodNeverRunning(st, name, entry, t) == FALSE

\* the closure of the Dynamic arm of State::update: now < *last_unlocked + period
PeriodRunning(st, name, entry, t) ==
    t < st.last_unlocked[name] + entry.restriction.period

\* an update that takes a Dynamic entry without a last_unlocked record for
\* one to lock
WantsUnlockedIfRecorded(st, name, entry, t) ==
    IF IsDynamic(entry)
    THEN name \in DOMAIN st.last_unlocked /\ PeriodRunning(st, name, entry, t)
    ELSE InAnyWindow(entry.restriction.unlock, t)

\* the state State::update wants for an entry: TRUE to unlock, FALSE to lock
WantsUnlocked(st, name, entry, t) ==
    IF IsDynamic(entry)
    THEN name \notin DOMAIN st.last_unlocked \/ PeriodRunning(st, name, entry, t)
    ELSE InAnyWindow(entry.restriction.unlock, t)

\* what State::update does with the outcome of one entry's call
Collect(st, op, name) ==
    [st EXCEPT !.attempts = Append(@, <<op, name, st.res>>),
               !.errors = IF st.res = "ok" THEN @ ELSE Append(@, <<name, st.res>>)]

\* a loop that gives up at the first failure
UpdateStopsAtError(st, i) == i <= Len(entry_order) /\ st.errors = <<>>

\* whether the loop of State::update goes on to entry i
UpdateContinues(st, i) == i <= Len(entry_order)

\* the loop of State::update over config.entries, from position i
RECURSIVE UpdateLoop(_, _, _, _)
UpdateLoop(st, t, fault, i) ==
    IF ~UpdateContinues(st, i) THEN st
    ELSE LET name == entry_order[i]
             entry == config.entries[name]
             s1 == IF WantsUnlocked(st, name, entry, t)
                   THEN Collect(unlock(st, name, entry, config.after_unlock, t, fault),
                                "unlock", name)
                   ELSE Collect(lock(st, name, entry, config.after_lock, t, fault),
                                "lock", name)
         IN  UpdateLoop(s1, t, fault, i + 1)

\* State::update: Ok(()) when no entry failed, else Err(errors)
update(st, t, fault) ==
    LET Result(s) == [s EXCEPT !.res = IF s.errors = <<>> THEN "ok" ELSE "errors"]
    IN  Result(UpdateLoop(st, t, fault, 1))

\* ------------------------------------------------------------------------
\* Configurations, persisted blobs and hosts files the daemon is started on
\* ------------------------------------------------------------------------

Names == {"game", "news"}

DomA == <<"a">>
DomB == <<"b">>
\* a domain string that is not a single token (serde accepts any string)
DomTwoWords == <<"c", " ", "d">>

Tok10m == <<"1", "0", "m">>
Tok20m == <<"2", "0", "m">>
TokNight == <<"2", "2", ":", "0", "0", "-", "0", "6", ":", "0", "0">>
TokDay == <<"0", "6", ":", "0", "0", "-", "2", "2", ":", "0", "0">>

\* Restriction::Dynamic, deserialised with deserialize_hm
Dynamic(period, cool_time) ==
    [type |-> "Dynamic", period |-> mh_duration(period).minutes,
     cool_time |-> mh_duration(cool_time).minutes]

\* Restriction::Static, deserialised with StaticDuration::deserialize
Static(windows) ==
    [type |-> "Static",
     unlock |-> [i \in 1..Len(windows) |->
                    [begin |-> static_duration(windows[i]).begin,
                     end |-> static_duration(windows[i]).end]]]

\* Config with both triggers set and well-formed domains
ConfigTriggers ==
    [entries |-> [n \in Names |->
        IF n = "game"
        THEN [domains |-> <<DomA>>, restriction |-> Dynamic(Tok10m, Tok20m)]
        ELSE [domains |-> <<DomB>>, restriction |-> Static(<<TokNight>>)]],
     after_lock |-> "on-lock", after_unlock |-> "on-unlock"]

\* Config without triggers and with one entry, its domain being two words
ConfigPlain ==
    [entries |-> [n \in {"news"} |->
        [domains |-> <<DomTwoWords>>, restriction |-> Static(<<TokDay>>)]],
     after_lock |-> "none", after_unlock |-> "none"]

Configs == {ConfigTriggers, ConfigPlain}

\* the clock advances in steps of ten minutes from 21:50
ClockStep == MinutesPerHour \div 6
StartNow == HM(21, 50)
LastNow == StartNow + MaxAdvance * ClockStep

\* a state file written by an earlier run under a shorter period: game was
\* unlocked five minutes before this start and locked again since
BlobLocked ==
    [kind |-> "state", is_locked |-> [n \in {"game"} |-> TRUE],
     last_unlocked |-> [n \in {"game"} |-> StartNow - 5],
     last_locked |-> [n \in {"game"} |-> StartNow - 2]]

\* no state file, and a state file that is no encoding of a State
NoBlob == [kind |-> "none"] @@ EmptyState
BadBlob == [kind |-> "garbage"] @@ EmptyState

\* a state file that is there (is_file() holds) and that fs::read fails on
UnreadableBlob == [kind |-> "unreadable"] @@ EmptyState

StateFiles == {NoBlob, BadBlob, BlobLocked, UnreadableBlob}

\* read_state_file: Ok(None) without a file, Ok(Some(content)) when the file
\* is read, and the error of fs::read otherwise
read_state_file(blob) ==
    IF blob.kind = "none" THEN "None"
    ELSE IF blob.kind = "unreadable" THEN "Err"
    ELSE "Some"

\* whether the ? after read_state_file(path) returns from read_with_config
ReadFails(blob) == read_state_file(blob) = "Err"

\* bincode::deserialize(&state).unwrap_or(State::empty()), and State::empty()
\* for None
Decode(blob) ==
    IF blob.kind = "state"
    THEN [is_locked |-> blob.is_locked, last_unlocked |-> blob.last_unlocked,
          last_locked |-> blob.last_locked]
    ELSE EmptyState

LineLo == <<":", ":", "1", " ", "l", "o">>
LineALocked == <<"0", ".", "0", "\t", "a", " ", "x">>
LineBCommented == <<"#", "0", ".", "0", " ", "b">>
LineACommented == <<" ", "#", " ", "0", ".", "0", " ", "a">>
LineNote == <<"#", " ", "n">>

\* the text /etc/hosts holds when the daemon starts
StartHosts == Join(<<LineLo, LineALocked, LineBCommented, LineNote>>) \o <<"\n">>

\* a file of two lines for a, the later one commented out, and an empty line
\* at its end
EditedHosts == Join(<<LineALocked, LineACommented, <<>>>>) \o <<"\n">>

\* the texts somebody else edits /etc/hosts to
HostsTexts == {StartHosts, EditedHosts}

\* all orders in which a HashMap may iterate over the keys in S
Orders(S) ==
    {o \in SeqsOfLen(S, Cardinality(S)) : \A x \in S : \E i \in 1..Len(o) : o[i] = x}

\* State::read_with_config: domain -> name, a later entry replacing an earlier
BuildDomainMap(cfg, order) ==
    LET ds == UNION {{cfg.entries[n].domains[i] : i \in 1..Len(cfg.entries[n].domains)}
                     : n \in DOMAIN cfg.entries}
        Owns(n, d) == \E i \in 1..Len(cfg.entries[n].domains) : cfg.entries[n].domains[i] = d
        LastOwner(d) == order[CHOOSE i \in 1..Len(order) :
                                /\ Owns(order[i], d)
                                /\ \A j \in (i + 1)..Len(order) : ~Owns(order[j], d)]
    IN  [d \in ds |-> LastOwner(d)]

NoEvent ==
    [kind |-> "none", name |-> "", res |-> "ok", commits |-> 0, writes |-> 0, saves |-> 0,
     fired |-> <<>>, attempts |-> <<>>, errors |-> <<>>, responses |-> <<>>, nth |-> 0]

NoProbe == [fn |-> "none"]

\* the clients of the socket (run_unlock, or any other program that connects)
Clients == 1..MaxClients

\* the accept worker waiting in listener.incoming()
WorkerIdle == [at |-> "accept", conn |-> 0, buffer |-> ""]

NoMsg == [conn |-> 0, name |-> ""]

\* no signal has come, nobody has connected, the channels are empty
ThreadsIdle ==
    /\ ticker = FALSE
    /\ signal = "none"
    /\ clients = [c \in Clients |-> "idle"]
    /\ backlog = <<>>
    /\ worker = WorkerIdle
    /\ handoff = <<>>
    /\ msg = NoMsg

\* the daemon at its first select!: the config is parsed, the state file read
\* and decoded (State::read_with_config), the channels are set up. The two
\* HashMaps keep one iteration order each for the whole run
Started ==
    /\ entry_order \in Orders(DOMAIN config.entries)
    /\ domain_map = BuildDomainMap(config, entry_order)
    /\ domain_order \in Orders(DOMAIN domain_map)
    /\ is_locked = Decode(state_file).is_locked
    /\ last_unlocked = Decode(state_file).last_unlocked
    /\ last_locked = Decode(state_file).last_locked
    /\ now = StartNow
    /\ watch = FALSE
    /\ pc = "select"
    /\ ev = NoEvent

\* run_as_daemon is entered: the config is parsed, nothing is loaded yet
Init ==
    /\ config \in Configs
    /\ entry_order \in Orders(DOMAIN config.entries)
    /\ state_file \in StateFiles
    /\ etc_hosts = StartHosts
    /\ domain_map = EmptyMap
    /\ domain_order = <<>>
    /\ is_locked = EmptyMap
    /\ last_unlocked = EmptyMap
    /\ last_locked = EmptyMap
    /\ now = StartNow
    /\ watch = FALSE
    /\ pc = "start"
    /\ ev = NoEvent
    /\ probe = NoProbe
    /\ ThreadsIdle

\* ------------------------------------------------------------------------
\* main.rs: the event loop and the threads around it
\* ------------------------------------------------------------------------

\* what a handler leaves in ev
Event(kind, name, st) ==
    [kind |-> kind, name |-> name, res |-> st.res, commits |-> st.commits,
     writes |-> st.writes, saves |-> st.saves, fired |-> st.fired,
     attempts |-> st.attempts, errors |-> st.errors, responses |-> st.responses,
     nth |-> st.nth]

\* hosts_modified_channel: a write of /etc/hosts raises a Modify(Data) event;
\* events raised before the loop receives the waiting one coalesce with it
Watched(w, writes) == w \/ writes > 0

\* the engine's fields after a handler
Store(st) ==
    /\ is_locked' = st.is_locked
    /\ last_unlocked' = st.last_unlocked
    /\ last_locked' = st.last_locked
    /\ etc_hosts' = st.etc_hosts
    /\ state_file' = st.state_file

Fits(st) == Len(Lines(st.etc_hosts)) <= MaxLines

\* a loop that any error of a handler unwinds
AfterArmAborts(res) == IF res = "ok" THEN "handled" ELSE "panicked"

\* where an arm other than exit leaves the loop: an Err is printed and the
\* loop goes on, a panic unwinds main_loop
AfterArm(res) == IF res = "panic" THEN "panicked" ELSE "handled"

\* the end of an arm of select!: what it did to the State and the files is
\* in place, its log is in ev, and a panic has unwound main_loop
Handled(kind, name, st, w) ==
    /\ Fits(st)
    /\ Store(st)
    /\ ev' = Event(kind, name, st)
    /\ watch' = Watched(w, st.writes)
    /\ pc' = AfterArm(st.res)

\* State::read_with_config, and run_as_daemon around it: an error of
\* read_state_file ends the start-up, anything else gives the State the loop
\* is entered with
Load ==
    /\ pc = "start"
    /\ IF ReadFails(state_file)
       THEN /\ pc' = "failed"
            /\ UNCHANGED <<domain_map, domain_order, is_locked, last_unlocked, last_locked>>
       ELSE /\ domain_map' = BuildDomainMap(config, entry_order)
            /\ domain_order' \in Orders(DOMAIN domain_map')
            /\ is_locked' = Decode(state_file).is_locked
            /\ last_unlocked' = Decode(state_file).last_unlocked
            /\ last_locked' = Decode(state_file).last_locked
            /\ pc' = "select"
    /\ UNCHANGED <<config, entry_order, etc_hosts, state_file, now, watch, ev, probe, threads>>

\* the clock moves on
Advance ==
    /\ pc = "select"
    /\ now < LastNow
    /\ now' = now + ClockStep
    /\ UNCHANGED <<loaded, engine, watch, pc, ev, probe, threads>>

\* somebody else rewrites /etc/hosts
ExternalEdit ==
    /\ pc = "select"
    /\ \E text \in HostsTexts :
        /\ text # etc_hosts
        /\ etc_hosts' = text
    /\ watch' = Watched(watch, 1)
    /\ UNCHANGED <<loaded, is_locked, last_unlocked, last_locked, state_file, now, pc, ev,
                   probe, threads>>

\* main_loop, recv(ticker)
Tick ==
    /\ pc = "select"
    /\ \E fault \in Faults : Handled("tick", "", update(Engine, now, fault), watch)
    /\ UNCHANGED <<loaded, now, probe, threads>>

\* main_loop, recv(hosts_modified)
HostsModified ==
    /\ pc = "select"
    /\ watch
    /\ \E fault \in Faults \ {"spawn"} :
        Handled("hosts_modified", "", commit(Engine, fault), FALSE)
    /\ UNCHANGED <<loaded, now, probe, threads>>

\* the names an unlock client may send
RequestNames == Names \cup {"nope"}

\* what the unlock_request arm does with a received name: config.entries[&name]
\* panics for a name that is no key, and nothing is written to the client
HandleUnlock(name, fault) ==
    IF name \notin DOMAIN config.entries
    THEN [Engine EXCEPT !.res = "panic"]
    ELSE unlock(Engine, name, config.entries[name], config.after_unlock, now, fault)

\* unlock_request_channel and main_loop, recv(unlock_request): the worker has
\* accepted a connection and read the name up to the client's half-close; it
\* meets the loop on the channel; its send returns, its stream goes out of
\* scope and the connection closes; the loop runs the arm
UnlockRequest ==
    /\ pc = "select"
    /\ \E name \in RequestNames, fault \in Faults :
        Handled("unlock_request", name, HandleUnlock(name, fault), watch)
    /\ UNCHANGED <<loaded, now, probe, threads>>

\* two iterations of the loop in one step: the loop goes around and, before
\* anything else happens, receives the name it has just handled once more
UnlockRequestAgain ==
    /\ pc = "handled"
    /\ ev.kind = "unlock_request"
    /\ ev.nth = 1
    /\ \E fault \in Faults :
        Handled("unlock_request", ev.name,
                [HandleUnlock(ev.name, fault) EXCEPT !.nth = 2], watch)
    /\ UNCHANGED <<loaded, now, probe, threads>>

\* an exit arm that takes a failed write of the state file for fatal
AfterExitFatal(res) == IF res = "ok" THEN "exited" ELSE "failed"

\* where the exit arm leaves the loop: return Ok(()), whatever fs::write gave
AfterExit(res) == "exited"

\* the exit arm of select!: write the state file, log a failure, return Ok(())
SaveAndReturn ==
    \E fault \in {"none", "save"} :
        /\ state_file' = IF fault = "save" THEN state_file ELSE StateExport(Engine)
        /\ ev' = Event("exit", "",
                       [Engine EXCEPT !.res = IF fault = "save" THEN "io_save" ELSE "ok",
                                      !.saves = IF fault = "save" THEN 0 ELSE 1])
        /\ pc' = AfterExit(IF fault = "save" THEN "io_save" ELSE "ok")

\* main_loop, recv(exit)
Exit ==
    /\ pc = "select"
    /\ SaveAndReturn
    /\ UNCHANGED <<loaded, is_locked, last_unlocked, last_locked, etc_hosts, now, watch,
                   probe, threads>>

\* main_loop, loop: the arm is done and the loop is back at select!
LoopBack ==
    /\ pc = "handled"
    /\ pc' = "select"
    /\ ev' = NoEvent
    /\ UNCHANGED <<loaded, engine, now, watch, probe, threads>>

Next ==
    \/ Load
    \/ Advance
    \/ ExternalEdit
    \/ Tick
    \/ HostsModified
    \/ UnlockRequest
    \/ UnlockRequestAgain
    \/ Exit
    \/ LoopBack

Spec == Init /\ [][Next]_vars

\* run_as_daemon is entered with a state file that gives State::empty(): no
\* file, or one that does not decode
InitEmpty ==
    /\ Init
    /\ Decode(state_file) = EmptyState
    /\ ~ReadFails(state_file)

\* the daemon started on an empty State
SpecEmpty == InitEmpty /\ [][Next]_vars

\* ------------------------------------------------------------------------
\* main.rs: the loop with its threads and channels
\* ------------------------------------------------------------------------

\* channel::bounded(0) in unlock_request_channel: the capacity of the channel
HandoffCapacity == 0

\* the arms of select!
Arms == {"tick", "exit", "hosts_modified", "unlock_request"}

\* main_loop has set up its channels and threads and has not returned
Alive == pc \in {"select", "handled"} \cup Arms

\* a loop that also polls while one of its arms runs
PollingInArm == pc \in {"select"} \cup Arms

\* the loop is at select!
Polling == pc = "select"

\* the arms of select! in the order they are written
ArmOrder == <<"tick", "exit", "hosts_modified", "unlock_request">>

\* whether the receive operation of an arm is ready
Ready(arm) ==
    CASE arm = "tick" -> ticker
      [] arm = "exit" -> signal = "sending"
      [] arm = "hosts_modified" -> watch
      [] arm = "unlock_request" -> handoff # <<>> \/ worker.at = "send"

\* a select! that takes the first ready operation in the order written
FirstReady(arm) ==
    \A i \in 1..Len(ArmOrder) :
        Ready(ArmOrder[i]) => \E j \in 1..i : ArmOrder[j] = arm

\* crossbeam's select!: of the operations that are ready any one may be the
\* one chosen (it is drawn at random)
MayChoose(arm) == TRUE

\* tick(config.interval): the interval has passed; the channel holds one
\* message at most
TickerFires ==
    /\ Alive
    /\ ~ticker
    /\ ticker' = TRUE
    /\ UNCHANGED <<loaded, engine, now, watch, pc, ev, probe, signal, clients, backlog,
                   worker, handoff, msg>>

\* exit_channel: SIGINT has come, and the handler blocks in tx.send(())
Signal ==
    /\ Alive
    /\ signal = "none"
    /\ signal' = "sending"
    /\ UNCHANGED <<loaded, engine, now, watch, pc, ev, probe, ticker, clients, backlog,
                   worker, handoff, msg>>

\* run_unlock, UnixStream::connect: the connection waits to be accepted
Connect ==
    /\ Alive
    /\ \E c \in Clients :
        /\ clients[c] = "idle"
        /\ clients' = [clients EXCEPT ![c] = "open"]
        /\ backlog' = Append(backlog, c)
    /\ UNCHANGED <<loaded, engine, now, watch, pc, ev, probe, ticker, signal, worker,
                   handoff, msg>>

\* run_unlock, write_all and the drop of the stream: the name is written and
\* the client's end is closed.  A client that never gets here stalls the read
\* of its connection
Close ==
    /\ Alive
    /\ \E c \in Clients :
        /\ clients[c] = "open"
        /\ clients' = [clients EXCEPT ![c] = "closed"]
    /\ UNCHANGED <<loaded, engine, now, watch, pc, ev, probe, ticker, signal, backlog,
                   worker, handoff, msg>>

\* the accept worker, listener.incoming(): the oldest connection is accepted
Accept ==
    /\ Alive
    /\ worker.at = "accept"
    /\ backlog # <<>>
    /\ worker' = [at |-> "read", conn |-> Head(backlog), buffer |-> ""]
    /\ backlog' = Tail(backlog)
    /\ UNCHANGED <<loaded, engine, now, watch, pc, ev, probe, ticker, signal, clients,
                   handoff, msg>>

\* a channel with room for one message more than its capacity
HasRoomForOne(queue) == Len(queue) < HandoffCapacity + 1

\* whether a send into the unlock_request channel returns without a receiver
HasRoom(queue) == Len(queue) < HandoffCapacity

\* tx.send(buffer) as the worker gets to it: it returns at once while the
\* channel has room, and blocks otherwise
Offer(c, name) ==
    IF HasRoom(handoff)
    THEN /\ handoff' = Append(handoff, [conn |-> c, name |-> name])
         /\ worker' = WorkerIdle
         /\ clients' = [clients EXCEPT ![c] = "queued"]
    ELSE /\ worker' = [at |-> "send", conn |-> c, buffer |-> name]
         /\ clients' = [clients EXCEPT ![c] = "offered"]
         /\ UNCHANGED handoff

\* the accept worker, stream.read_to_string(&mut buffer): it returns when the
\* client has closed its end, with what the client wrote or with an error
\* (the connection is then dropped), and the worker goes on to tx.send
Read ==
    /\ Alive
    /\ worker.at = "read"
    /\ clients[worker.conn] = "closed"
    /\ \/ \E name \in RequestNames : Offer(worker.conn, name)
       \/ /\ worker' = WorkerIdle
          /\ clients' = [clients EXCEPT ![worker.conn] = "dropped"]
          /\ UNCHANGED handoff
    /\ UNCHANGED <<loaded, engine, now, watch, pc, ev, probe, ticker, signal, backlog, msg>>

\* select!, recv(ticker) is chosen
RecvTick ==
    /\ Polling
    /\ Ready("tick")
    /\ MayChoose("tick")
    /\ ticker' = FALSE
    /\ pc' = "tick"
    /\ UNCHANGED <<loaded, engine, now, watch, ev, probe, signal, clients, backlog, worker,
                   handoff, msg>>

\* select!, recv(exit) is chosen: the send of the ctrlc handler returns
RecvExit ==
    /\ Polling
    /\ Ready("exit")
    /\ MayChoose("exit")
    /\ signal' = "received"
    /\ pc' = "exit"
    /\ UNCHANGED <<loaded, engine, now, watch, ev, probe, ticker, clients, backlog, worker,
                   handoff, msg>>

\* select!, recv(hosts_modified) is chosen: the send of the watcher returns
RecvHostsModified ==
    /\ Polling
    /\ Ready("hosts_modified")
    /\ MayChoose("hosts_modified")
    /\ watch' = FALSE
    /\ pc' = "hosts_modified"
    /\ UNCHANGED <<loaded, engine, now, ev, probe, ticker, signal, clients, backlog, worker,
                   handoff, msg>>

\* select!, recv(unlock_request) is chosen: the loop takes the oldest message
\* of the channel, the blocked worker's message moving up, or, the channel
\* holding none, meets the worker blocked in send
RecvUnlockRequest ==
    /\ Polling
    /\ Ready("unlock_request")
    /\ MayChoose("unlock_request")
    /\ IF handoff # <<>>
       THEN /\ msg' = Head(handoff)
            /\ IF worker.at = "send"
               THEN /\ handoff' = Append(Tail(handoff),
                                         [conn |-> worker.conn, name |-> worker.buffer])
                    /\ worker' = WorkerIdle
                    /\ clients' = [clients EXCEPT ![Head(handoff).conn] = "handed",
                                                  ![worker.conn] = "queued"]
               ELSE /\ handoff' = Tail(handoff)
                    /\ clients' = [clients EXCEPT ![Head(handoff).conn] = "handed"]
                    /\ UNCHANGED worker
       ELSE /\ msg' = [conn |-> worker.conn, name |-> worker.buffer]
            /\ worker' = WorkerIdle
            /\ clients' = [clients EXCEPT ![worker.conn] = "handed"]
            /\ UNCHANGED handoff
    /\ pc' = "unlock_request"
    /\ UNCHANGED <<loaded, engine, now, watch, ev, probe, ticker, signal, backlog>>

\* the arm of recv(ticker)
ArmTick ==
    /\ pc = "tick"
    /\ \E fault \in Faults :
        Handled("tick", "", update(Engine, now, fault), watch)
    /\ UNCHANGED <<loaded, now, probe, threads>>

\* the arm of recv(exit)
ArmExit ==
    /\ pc = "exit"
    /\ SaveAndReturn
    /\ UNCHANGED <<loaded, is_locked, last_unlocked, last_locked, etc_hosts, now, watch,
                   probe, threads>>

\* the arm of recv(hosts_modified)
ArmHostsModified ==
    /\ pc = "hosts_modified"
    /\ \E fault \in Faults \ {"spawn"} :
        Handled("hosts_modified", "", commit(Engine, fault), watch)
    /\ UNCHANGED <<loaded, now, probe, threads>>

\* the arm of recv(unlock_request), run on the name received
ArmUnlockRequest ==
    /\ pc = "unlock_request"
    /\ \E fault \in Faults :
        Handled("unlock_request", msg.name, HandleUnlock(msg.name, fault), watch)
    /\ clients' = [clients EXCEPT ![msg.conn] =
                      IF msg.name \in DOMAIN config.entries THEN "served" ELSE @]
    /\ msg' = IF msg.name \in DOMAIN config.entries THEN NoMsg ELSE msg
    /\ UNCHANGED <<loaded, now, probe, ticker, signal, backlog, worker, handoff>>

\* run_as_daemon is entered with the configuration of one entry and no state file
InitLoop ==
    /\ config = ConfigPlain
    /\ entry_order \in Orders(DOMAIN config.entries)
    /\ state_file = NoBlob
    /\ etc_hosts = StartHosts
    /\ domain_map = EmptyMap
    /\ domain_order = <<>>
    /\ is_locked = EmptyMap
    /\ last_unlocked = EmptyMap
    /\ last_locked = EmptyMap
    /\ now = StartNow
    /\ watch = FALSE
    /\ pc = "start"
    /\ ev = NoEvent
    /\ probe = NoProbe
    /\ ThreadsIdle

NextLoop ==
    \/ Load
    \/ ExternalEdit
    \/ TickerFires
    \/ Signal
    \/ Connect
    \/ Close
    \/ Accept
    \/ Read
    \/ RecvTick
    \/ RecvExit
    \/ RecvHostsModified
    \/ RecvUnlockRequest
    \/ ArmTick
    \/ ArmExit
    \/ ArmHostsModified
    \/ ArmUnlockRequest
    \/ LoopBack

SpecLoop == InitLoop /\ [][NextLoop]_vars

\* the arm the loop is in comes to its end: it returns, or it panics.  The
\* steps of the loop that do this are those of ArmTick, ArmExit,
\* ArmHostsModified and ArmUnlockRequest
ArmEnds == pc \in Arms /\ pc' \in {"handled", "exited", "panicked"}

\* the loop thread runs: the load and every arm come to their end, and the
\* loop goes around
LoopRuns ==
    /\ WF_vars(Load)
    /\ WF_pc(ArmEnds)
    /\ WF_vars(LoopBack)

\* select! draws at random among the ready operations: an operation that is
\* ready at select! again and again is chosen in the end
SelectFair ==
    /\ SF_vars(RecvTick)
    /\ SF_vars(RecvExit)
    /\ SF_vars(RecvHostsModified)
    /\ SF_vars(RecvUnlockRequest)

SpecLoopFair == SpecLoop /\ LoopRuns /\ SelectFair

\* ------------------------------------------------------------------------
\* The pure functions of config.rs on their own: window containment
\* ------------------------------------------------------------------------

WindowTimes == {HM(0, 0), HM(6, 0), HM(12, 0), HM(22, 0), HM(23, 59)}

ProbeTimes ==
    {HM(0, 0), HM(2, 0), HM(5, 59), HM(6, 0), HM(12, 0), HM(21, 59), HM(22, 0),
     HM(23, 30), HM(23, 59)}

\* a daemon that stands still while a pure function is applied to the input
\* held in probe
InitPure(inputs) ==
    /\ probe \in inputs
    /\ config = ConfigTriggers
    /\ state_file = NoBlob
    /\ etc_hosts = <<>>
    /\ entry_order = <<"game", "news">>
    /\ domain_order = <<DomA, DomB>>
    /\ Started
    /\ ThreadsIdle

Engineless == UNCHANGED <<loaded, engine, now, watch, pc, ev, threads>>

WindowInputs ==
    {[fn |-> "contains?", begin |-> b, end |-> e, t |-> t] :
        b \in WindowTimes, e \in WindowTimes, t \in ProbeTimes}

\* StaticDuration::contains applied to a window and a time of day
ProbeContains ==
    /\ probe.fn = "contains?"
    /\ probe' = [fn |-> "contains", begin |-> probe.begin, end |-> probe.end, t |-> probe.t,
                 result |-> contains(probe.begin, probe.end, probe.t)]
    /\ Engineless

SpecWindow == InitPure(WindowInputs) /\ [][ProbeContains]_vars

\* ------------------------------------------------------------------------
\* The pure functions of config.rs on their own: the grammar
\* ------------------------------------------------------------------------

TimeAlphabet == {"0", "2", "4", "5", "6", "9", ":", "+"}

\* every five-character token over TimeAlphabet, and some of other lengths
TimeTokens ==
    SeqsOfLen(TimeAlphabet, 5)
        \cup {<<"2", ":", "0", "0">>, <<"0", "2", ":", "0">>, <<>>, <<"0", "2">>}

DurAlphabet == {"0", "1", "5", "9", ".", "h", "m"}

Tok0016h == <<"0", ".", "0", "1", "6", "h">>
Tok15h == <<"1", ".", "5", "h">>
Tok90m == <<"9", "0", "m">>

\* every token over DurAlphabet of up to MaxDurLen characters, and one longer
DurTokens ==
    UNION {SeqsOfLen(DurAlphabet, n) : n \in 1..MaxDurLen} \cup {Tok0016h}

GrammarInputs ==
    {[fn |-> "time?", token |-> tok] : tok \in TimeTokens}
        \cup {[fn |-> "mh_duration?", token |-> tok] : tok \in DurTokens}

\* the parser time applied to a token
ProbeTime ==
    /\ probe.fn = "time?"
    /\ probe' = [fn |-> "time", token |-> probe.token, kind |-> time(probe.token, 1).kind,
                 h |-> time(probe.token, 1).h, m |-> time(probe.token, 1).m]
    /\ Engineless

\* all_consuming(mh_duration) applied to a token
ProbeDuration ==
    /\ probe.fn = "mh_duration?"
    /\ probe' = [fn |-> "mh_duration", token |-> probe.token,
                 ok |-> mh_duration(probe.token).ok,
                 minutes |-> mh_duration(probe.token).minutes]
    /\ Engineless

SpecGrammar == InitPure(GrammarInputs) /\ [][ProbeTime \/ ProbeDuration]_vars

\* ------------------------------------------------------------------------
\* Claims
\* ------------------------------------------------------------------------

\* C1: a window with begin < end contains t iff begin <= t < end, and a window
\* with begin >= end (it wraps midnight) contains t iff t >= begin or t < end;
\* so (22:00, 06:00) contains 23:30 and 02:00 and not 12:00.
C1_Containment ==
    probe.fn = "contains" =>
        probe.result = (IF probe.begin < probe.end
                        THEN probe.begin <= probe.t /\ probe.t < probe.end
                        ELSE probe.t >= probe.begin \/ probe.t < probe.end)

\* the case of C1 the source gets wrong: 12:00 against the window (22:00, 06:00)
C1_NoonInNightWindow ==
    /\ probe.fn = "contains"
    /\ probe.begin = HM(22, 0) /\ probe.end = HM(6, 0) /\ probe.t = HM(12, 0)
    /\ probe.result

\* ------------------------------------------------------------------------
\* C2
\* ------------------------------------------------------------------------

\* this step is the unlock_request arm run on name
UnlockStep(name) == pc = "select" /\ ev'.kind = "unlock_request" /\ ev'.name = name

\* the case of C2: a Dynamic entry that is not already unlocked and has a
\* recorded last_unlocked
DynamicWithHistory(name) ==
    /\ config.entries[name].restriction.type = "Dynamic"
    /\ ~(name \in DOMAIN is_locked /\ ~is_locked[name])
    /\ name \in DOMAIN last_unlocked

\* the step fails with the cooldown error and changes nothing
RejectedForCooldown ==
    /\ ev'.res = "cooldown"
    /\ ev'.commits = 0 /\ ev'.writes = 0 /\ ev'.fired = <<>>
    /\ UNCHANGED engine

IoFailures == {"io_read", "io_write", "io_save", "io_spawn"}

\* C2 as stated: unlock of a Dynamic entry that is not already unlocked and
\* has a recorded last_unlocked fails with the cooldown error and changes
\* nothing while now < last_unlocked + cool_time; from then on the same call
\* succeeds and the entry becomes unlocked.
C2_CooldownThenSuccess ==
    [][\A name \in DOMAIN config.entries :
          (UnlockStep(name) /\ DynamicWithHistory(name)) =>
              IF now < last_unlocked[name] + config.entries[name].restriction.cool_time
              THEN RejectedForCooldown
              ELSE ev'.res = "ok" /\ is_locked'[name] = FALSE]_vars

\* C2 amended: while the cooldown runs the call is rejected and changes
\* nothing; from then on the entry becomes unlocked with last_unlocked = now,
\* and the call succeeds unless reading or writing /etc/hosts, writing the
\* state file or spawning the trigger fails.
C2_CooldownThenUnlocked ==
    [][\A name \in DOMAIN config.entries :
          (UnlockStep(name) /\ DynamicWithHistory(name)) =>
              IF now < last_unlocked[name] + config.entries[name].restriction.cool_time
              THEN RejectedForCooldown
              ELSE /\ ev'.res \in {"ok"} \cup IoFailures
                   /\ is_locked'[name] = FALSE
                   /\ last_unlocked'[name] = now
                   /\ ev'.commits = 1]_vars

\* a request for game has been rejected for cooldown
C2_RequestRejected ==
    /\ pc = "handled"
    /\ ev.kind = "unlock_request" /\ ev.name = "game" /\ ev.res = "cooldown"
    /\ "game" \in DOMAIN is_locked /\ is_locked["game"]
    /\ now < last_unlocked["game"] + config.entries["game"].restriction.cool_time

\* ------------------------------------------------------------------------
\* C3
\* ------------------------------------------------------------------------

\* this step is the second of two consecutive unlock calls for one name
SecondCall == pc = "handled" /\ pc' = "handled" /\ ev'.nth = 2

\* the step runs no commit, fires no trigger and leaves State and files alone
NoOp ==
    /\ ev'.commits = 0 /\ ev'.writes = 0 /\ ev'.fired = <<>>
    /\ UNCHANGED engine

FailedAttempts(attempts) ==
    LET failed == SelectSeq(attempts, LAMBDA a : a[3] # "ok")
    IN  [i \in 1..Len(failed) |-> <<failed[i][2], failed[i][3]>>]

\* C4: update calls unlock or lock for every entry of the config, whatever
\* fails for the other entries, and returns exactly the failures of these
\* calls: Ok when none failed.
C4_UpdateAttemptsAll ==
    (pc = "handled" /\ ev.kind = "tick") =>
        /\ Len(ev.attempts) = Len(entry_order)
        /\ \A i \in 1..Len(entry_order) : ev.attempts[i][2] = entry_order[i]
        /\ ev.errors = FailedAttempts(ev.attempts)
        /\ (ev.res = "ok") = (ev.errors = <<>>)

\* an update has found game blocked by its cooldown and has unlocked news
C4_OneBlockedOneEligible ==
    /\ pc = "handled" /\ ev.kind = "tick" /\ ev.res = "errors"
    /\ ev.errors = <<<<"game", "cooldown">>>>
    /\ \E i \in 1..Len(ev.attempts) : ev.attempts[i] = <<"unlock", "news", "ok">>
    /\ "game" \in DOMAIN is_locked /\ is_locked["game"]
    /\ "news" \in DOMAIN is_locked /\ ~is_locked["news"]
    /\ ev.commits = 1

\* ------------------------------------------------------------------------
\* C5
\* ------------------------------------------------------------------------

\* every domain of domain_map is marked in /etc/hosts as the State wants it
HostsAgree ==
    \A d \in DOMAIN domain_map :
        HostsIsLocked(HostsParse(etc_hosts), d) = domanin_is_locked(Engine, d)

\* C5: commit writes /etc/hosts only if a line differs from what it read;
\* when every domain of domain_map is already marked as wanted it writes
\* nothing.
C5_WritesOnlyIfChanged ==
    [][(pc = "select" /\ ev'.kind = "hosts_modified") =>
          /\ ev'.writes > 0 => Lines(etc_hosts') # Lines(etc_hosts)
          /\ HostsAgree => (ev'.writes = 0 /\ etc_hosts' = etc_hosts)]_vars

\* a commit has run, found every domain marked as wanted and written nothing
C5_CommitWithoutWrite ==
    /\ pc = "handled"
    /\ ev.kind = "hosts_modified" /\ ev.res = "ok" /\ ev.commits = 1 /\ ev.writes = 0
    /\ HostsAgree

\* ------------------------------------------------------------------------
\* C6
\* ------------------------------------------------------------------------

\* C6: a commit run on the /etc/hosts a commit has just written, the State
\* being the same, changes no line and writes nothing.
C6_SecondCommitWritesNothing ==
    (pc = "handled" /\ ev.kind = "hosts_modified" /\ ev.res = "ok" /\ ev.writes = 1) =>
        /\ commit(Engine, "none").writes = 0
        /\ commit(Engine, "none").etc_hosts = etc_hosts

\* the case of C6 the source gets wrong: the domain "c d" is written as a
\* line that is read back as the domain "c", so the next commit appends again
C6_SecondCommitAppends ==
    /\ pc = "handled"
    /\ ev.kind = "hosts_modified" /\ ev.res = "ok" /\ ev.writes = 1
    /\ DomTwoWords \in DOMAIN domain_map
    /\ commit(Engine, "none").writes = 1
    /\ Len(Lines(commit(Engine, "none").etc_hosts)) = Len(Lines(etc_hosts)) + 1

\* ------------------------------------------------------------------------
\* C7
\* ------------------------------------------------------------------------

\* C7: an unlock request whose name is no entry of the config is answered
\* with a Fail response whose cause is "unknown entry"; the loop goes on, and
\* the State and /etc/hosts are left as they were.
C7_UnknownNameAnswered ==
    [][(pc = "select" /\ ev'.kind = "unlock_request"
            /\ ev'.name \notin DOMAIN config.entries) =>
          /\ pc' = "handled"
          /\ Len(ev'.responses) = 1
          /\ ev'.responses[1].kind = "Fail"
          /\ ev'.responses[1].cause = "unknown entry"
          /\ UNCHANGED engine]_vars

\* the case of C7 the source gets wrong: the name "nope" ends main_loop
C7_UnknownNamePanics ==
    /\ pc = "panicked"
    /\ ev.kind = "unlock_request" /\ ev.name = "nope"
    /\ ev.responses = <<>>

\* ------------------------------------------------------------------------
\* C8
\* ------------------------------------------------------------------------

\* C8: every unlock request for a known entry that the loop has handled has
\* got exactly one response on its connection: Success when the unlock
\* succeeded or was a no-op, Fail on cooldown or any other error.
C8_OneResponse ==
    (pc = "handled" /\ ev.kind = "unlock_request") =>
        /\ Len(ev.responses) = 1
        /\ ev.responses[1].kind = IF ev.res = "ok" THEN "Success" ELSE "Fail"

\* the case of C8 the source gets wrong: game has been unlocked on request
\* and nothing has been written to the client
C8_UnlockedWithoutResponse ==
    /\ pc = "handled"
    /\ ev.kind = "unlock_request" /\ ev.name = "game" /\ ev.res = "ok"
    /\ ~is_locked["game"]
    /\ ev.responses = <<>>

\* ------------------------------------------------------------------------
\* C9, C10
\* ------------------------------------------------------------------------

\* C9: a duration with unit h is the whole part in hours plus the fractional
\* part times 60, truncated, in minutes ("1.5h" is 90 minutes, "0.016h" is 0);
\* with unit m it is the value truncated to whole minutes ("90m" is 90).
C9_DurationValue ==
    (probe.fn = "mh_duration" /\ probe.ok) =>
        LET d == float(probe.token)
        IN  probe.minutes =
                IF probe.token[Len(probe.token)] = "m" THEN d.whole
                ELSE d.whole * 60 + (d.fracNum * 60) \div d.fracDen

\* the case of C9 the source gets wrong: "1.5h" parses to 60 minutes
C9_OneAndAHalfHours ==
    probe.fn = "mh_duration" /\ probe.token = Tok15h /\ probe.ok /\ probe.minutes = 60

\* C10: a token HH:MM whose minutes are 60 or more or whose hours are 24 or
\* more is rejected with an error: it yields no Time value and no panic.
C10_TimeRange ==
    (/\ probe.fn = "time"
     /\ Len(probe.token) = 5
     /\ \A i \in {1, 2, 4, 5} : probe.token[i] \in Digits
     /\ probe.token[3] = ":"
     /\ \/ 10 * DigitVal(probe.token[4]) + DigitVal(probe.token[5]) >= 60
        \/ 10 * DigitVal(probe.token[1]) + DigitVal(probe.token[2]) >= 24)
        => probe.kind = "error"

\* the case of C10 the source gets wrong: minutes of exactly 60 get past the
\* range check and NaiveTime::from_hms panics on them
C10_MinuteSixty ==
    /\ probe.fn = "time"
    /\ probe.token = <<"0", "0", ":", "6", "0">>
    /\ probe.kind = "panic"

\* ------------------------------------------------------------------------
\* C11
\* ------------------------------------------------------------------------

\* C11: loading the State never fails the start-up because of the state
\* file: the loop is entered with domain_map built from the config, and with
\* empty is_locked, last_unlocked and last_locked when the file is missing,
\* cannot be read or does not decode.
C11_LoadNeverFails ==
    [][pc = "start" =>
          /\ pc' = "select"
          /\ domain_map' = BuildDomainMap(config, entry_order)
          /\ state_file.kind # "state" =>
                /\ is_locked' = EmptyMap
                /\ last_unlocked' = EmptyMap
                /\ last_locked' = EmptyMap]_vars

\* the case of C11 the source gets wrong: the state file is there and cannot
\* be read, and the start-up has ended with the error of fs::read
C11_UnreadableFailsStart ==
    /\ pc = "failed"
    /\ state_file = UnreadableBlob
    /\ domain_map = EmptyMap

\* ------------------------------------------------------------------------
\* C12
\* ------------------------------------------------------------------------

\* this step takes the Dynamic entry name from locked to unlocked
BecomesUnlocked(name) ==
    /\ IsDynamic(config.entries[name])
    /\ name \in DOMAIN is_locked /\ is_locked[name]
    /\ name \in DOMAIN is_locked' /\ ~is_locked'[name]

\* C12: cool_time is a minimum locked duration: a Dynamic entry that was
\* locked at time L (last_locked) is not unlocked, by a tick or by an unlock
\* request, before L + cool_time.
C12_CooldownFromLock ==
    [][\A name \in DOMAIN config.entries :
          (BecomesUnlocked(name) /\ name \in DOMAIN last_locked) =>
              now >= last_locked[name] + config.entries[name].restriction.cool_time]_vars

\* the case of C12 the source gets wrong: game has been unlocked on request
\* less than cool_time after it was locked, the cooldown being measured from
\* last_unlocked
C12_UnlockedSoonAfterLock ==
    /\ pc = "handled"
    /\ ev.kind = "unlock_request" /\ ev.name = "game" /\ ev.res = "ok" /\ ev.commits = 1
    /\ "game" \in DOMAIN is_locked /\ ~is_locked["game"]
    /\ "game" \in DOMAIN last_locked
    /\ last_unlocked["game"] = now
    /\ now < last_locked["game"] + config.entries["game"].restriction.cool_time

\* ------------------------------------------------------------------------
\* C13
\* ------------------------------------------------------------------------

\* name is a Dynamic entry that is unlocked, and was unlocked at last_unlocked
UnlockedDynamic(name) ==
    /\ IsDynamic(config.entries[name])
    /\ name \in DOMAIN is_locked /\ ~is_locked[name]
    /\ name \in DOMAIN last_unlocked

\* this step is the tick arm
TickStep == pc = "select" /\ ev'.kind = "tick"

\* this step is the unlock_request arm run on name, first or second call
RequestStep(name) == (UnlockStep(name) \/ SecondCall) /\ ev'.name = name

\* C13: period bounds the time a Dynamic entry stays unlocked: a tick at or
\* after last_unlocked + period leaves the entry locked (last_locked = now),
\* whether or not its commit succeeds; an earlier tick and any unlock request
\* made while the entry is unlocked leave is_locked and last_unlocked as they
\* are, so that no request postpones the lock.
C13_PeriodBoundsUnlocked ==
    [][\A name \in DOMAIN config.entries :
          UnlockedDynamic(name) =>
              /\ TickStep =>
                    IF now >= last_unlocked[name] + config.entries[name].restriction.period
                    THEN /\ is_locked'[name]
                         /\ last_locked'[name] = now
                         /\ last_unlocked'[name] = last_unlocked[name]
                    ELSE /\ ~is_locked'[name]
                         /\ last_unlocked'[name] = last_unlocked[name]
              /\ RequestStep(name) =>
                    /\ ev'.res = "ok" /\ ev'.commits = 0
                    /\ UNCHANGED engine]_vars

\* a tick has locked game at the very instant its period ended
C13_LockedAtPeriodEnd ==
    /\ pc = "handled" /\ ev.kind = "tick"
    /\ \E i \in 1..Len(ev.attempts) : ev.attempts[i] = <<"lock", "game", "ok">>
    /\ "game" \in DOMAIN is_locked /\ is_locked["game"]
    /\ "game" \in DOMAIN last_unlocked /\ "game" \in DOMAIN last_locked
    /\ last_locked["game"] = now
    /\ now = last_unlocked["game"] + config.entries["game"].restriction.period

\* ------------------------------------------------------------------------
\* C14
\* ------------------------------------------------------------------------

\* what the State records for name: its three map entries, empty where absent
Recorded(il, lu, ll, name) ==
    <<IF name \in DOMAIN il THEN <<il[name]>> ELSE <<>>,
      IF name \in DOMAIN lu THEN <<lu[name]>> ELSE <<>>,
      IF name \in DOMAIN ll THEN <<ll[name]>> ELSE <<>>>>

\* C14: is_locked is never inferred from /etc/hosts: the commit of the
\* hosts_modified arm leaves is_locked, last_unlocked and last_locked as they
\* are whatever the file holds, and so does somebody else's edit of the file;
\* once loaded, what the State records for an entry changes only in a tick
\* (update's lock or unlock) or in an unlock request for that entry.
C14_StateNotInferred ==
    [][/\ (pc = "select" /\ ev'.kind = "hosts_modified") =>
              UNCHANGED <<is_locked, last_unlocked, last_locked>>
       /\ \A name \in Names :
              Recorded(is_locked', last_unlocked', last_locked', name)
                      # Recorded(is_locked, last_unlocked, last_locked, name)
                  => \/ pc = "start"
                     \/ TickStep
                     \/ RequestStep(name)]_vars

\* the hosts_modified arm has rewritten a file that showed a locked as
\* /etc/hosts was started with, and game is still unlocked
C14_FileOverruled ==
    /\ pc = "handled"
    /\ ev.kind = "hosts_modified" /\ ev.res = "ok" /\ ev.writes = 1
    /\ "game" \in DOMAIN is_locked /\ ~is_locked["game"]
    /\ Len(Lines(etc_hosts)) = Len(Lines(StartHosts))
    /\ Lines(etc_hosts)[1] = LineLo
    /\ Lines(etc_hosts)[2] = host_line(DomA, FALSE)
    /\ Lines(etc_hosts)[4] = LineNote

\* ------------------------------------------------------------------------
\* C15
\* ------------------------------------------------------------------------

\* line is recognised as a line of a domain of domain_map
ManagedLine(line) == host(line).ok /\ host(line).domain \in DOMAIN domain_map

\* this step is an arm of the loop that runs commit
CommitStep == pc \in {"select", "handled"} /\ ev'.kind # "none" /\ ev'.commits > 0

Taken ==
    (IF ticker /\ ~ticker' THEN 1 ELSE 0)
        + (IF signal = "sending" /\ signal' = "received" THEN 1 ELSE 0)
        + (IF watch /\ ~watch' THEN 1 ELSE 0)
        + (IF msg' # msg /\ msg' # NoMsg THEN 1 ELSE 0)

\* the arm of the channel this step takes a message from
ArmTaken ==
    IF ticker /\ ~ticker' THEN "tick"
    ELSE IF signal = "sending" /\ signal' = "received" THEN "exit"
    ELSE IF watch /\ ~watch' THEN "hosts_modified"
    ELSE "unlock_request"

\* C16: the loop takes one message per iteration and runs its arm to the end
\* before it polls again: a message leaves a channel only in a step of the
\* loop from select! into the arm of that channel, one message per such step;
\* an arm, once entered, ends before anything else happens to the loop; and
\* the State changes only in a step of an arm (after the load), never in a
\* step of the accept worker, the watcher, the ticker or the signal handler.
C16_OneArmAtATime ==
    [][/\ Taken = (IF pc = "select" /\ pc' # "select" THEN 1 ELSE 0)
       /\ (pc = "select" /\ pc' # "select") => pc' = ArmTaken
       /\ pc \in Arms => pc' \in {pc, "handled", "exited", "panicked"}
       /\ (pc \in Arms /\ pc' = pc) => UNCHANGED <<engine, ev, msg>>
       /\ <<is_locked, last_unlocked, last_locked>>'
                  # <<is_locked, last_unlocked, last_locked>>
              => (pc \in Arms /\ pc' # pc) \/ pc = "start"]_vars

\* the tick arm runs while a request, a file-watch event and the shutdown
\* signal all wait to be received
C16_ArmRunsOthersWait ==
    /\ pc = "tick"
    /\ worker.at = "send"
    /\ watch
    /\ signal = "sending"

\* ------------------------------------------------------------------------
\* C17
\* ------------------------------------------------------------------------

\* C17: on the shutdown signal the loop tries to write the State to the state
\* file and then returns with success, whether the write succeeded (the file
\* then holds the State) or failed (the file is as it was, the failure is
\* logged); the State and /etc/hosts are left alone, and once the exit arm has
\* run no tick, commit or unlock runs any more.
C17_ExitSavesAndReturns ==
    [][/\ (pc = "select" /\ ev'.kind = "exit") =>
              /\ pc' = "exited"
              /\ UNCHANGED <<is_locked, last_unlocked, last_locked, etc_hosts>>
              /\ ev'.commits = 0 /\ ev'.attempts = <<>>
              /\ \/ ev'.res = "ok" /\ state_file' = StateExport(Engine)
                 \/ ev'.res = "io_save" /\ state_file' = state_file
       /\ pc = "exited" => UNCHANGED vars]_vars

\* the loop has returned although the write of the state file failed: game
\* is unlocked, and the file still says what the daemon was started on
C17_ExitedWithoutSaving ==
    /\ pc = "exited"
    /\ ev.kind = "exit" /\ ev.res = "io_save"
    /\ "game" \in DOMAIN is_locked /\ ~is_locked["game"]
    /\ state_file = BlobLocked

\* ------------------------------------------------------------------------
\* C18
\* ------------------------------------------------------------------------

\* the requests that have been read and that the loop has not received
InHandoff == {c \in Clients : clients[c] \in {"offered", "queued"}}

\* the channel holds nothing, and the one request in hand-off, if any, is the
\* one the worker is blocked in send with
OneInHand ==
    /\ handoff = <<>>
    /\ Cardinality(InHandoff) <= 1
    /\ \A c \in InHandoff : worker.at = "send" /\ worker.conn = c

\* whatever the worker does, the loop can receive what is ready at select!
\* and can leave the arm it has entered
LoopNotBlocked ==
    /\ (pc = "select" /\ ticker) => ENABLED RecvTick
    /\ (pc = "select" /\ watch) => ENABLED RecvHostsModified
    /\ (pc = "select" /\ signal = "sending") => ENABLED RecvExit
    /\ pc = "tick" => \E fault \in Faults : Fits(update(Engine, now, fault))
    /\ pc = "hosts_modified" => \E fault \in Faults \ {"spawn"} : Fits(commit(Engine, fault))
    /\ pc = "exit" => ENABLED ArmExit

\* C18: the unlock hand-off is a rendezvous.  The channel never holds a
\* message and at most one request is in hand-off, the one the worker is
\* blocked in send with; that send returns only in the step in which the loop
\* receives the request at select!, and until then the worker accepts and
\* reads no other connection, so that a second request waits.  A worker that
\* is blocked in send or stalled in a read keeps the loop from nothing: at
\* select! a ready tick, file-watch event or shutdown signal can be received,
\* and the arm entered can run to its end.
C18_Rendezvous ==
    [][/\ OneInHand /\ OneInHand'
       /\ worker.at \in {"read", "send"} => LoopNotBlocked
       /\ worker.at = "send" =>
             \/ /\ UNCHANGED <<worker, handoff>>
                /\ clients'[worker.conn] = clients[worker.conn]
                /\ SubSeq(backlog', 1, Len(backlog)) = backlog
             \/ /\ pc = "select" /\ pc' = "unlock_request"
                /\ msg' = [conn |-> worker.conn, name |-> worker.buffer]
                /\ clients'[worker.conn] = "handed"
                /\ worker' = WorkerIdle
                /\ UNCHANGED backlog]_vars

\* the worker is blocked in send with the request of client 1, the request of
\* client 2 is written and waits to be accepted, and the loop runs a tick
C18_SecondRequestWaits ==
    /\ worker.at = "send" /\ worker.conn = 1
    /\ clients[1] = "offered"
    /\ clients[2] = "closed" /\ backlog = <<2>>
    /\ pc = "tick"

\* ------------------------------------------------------------------------
\* C19
\* ------------------------------------------------------------------------

\* main_loop has returned or has been unwound by a panic
Ended == pc \in {"exited", "panicked"}

Recoverable == {"cooldown", "errors"} \cup IoFailures

\* this step is the arm of a tick, a file-watch event or an unlock request
HandlerStep ==
    /\ pc \in {"select", "handled"} /\ pc' # "select"
    /\ ev'.kind \in {"tick", "hosts_modified", "unlock_request"}

\* at select! the loop can run the arm of whatever gets ready next
CanService ==
    /\ \E fault \in Faults : Fits(update(Engine, now, fault))
    /\ \E fault \in Faults \ {"spawn"} : Fits(commit(Engine, fault))
    /\ \A name \in DOMAIN config.entries :
          \E fault \in Faults : Fits(HandleUnlock(name, fault))
    /\ ENABLED Exit

\* C20: an error of a handler does not stop the loop: when the arm of a tick,
\* a file-watch event or an unlock request ends with a cooldown rejection, a
\* failed read or write of /etc/hosts, a failed write of the state file or a
\* failed spawn of a trigger, the error is logged and the loop neither
\* returns nor panics; it goes back to select! with the State and the files
\* as the arm left them, and at select! it can serve ticks, file-watch
\* events, unlock requests and the shutdown signal, whatever went before.
C20_ErrorsDoNotStop ==
    [][/\ (HandlerStep /\ ev'.res \in Recoverable) =>
              /\ pc' = "handled"
              /\ ev'.kind = "tick" => ev'.errors # <<>>
       /\ (pc = "handled" /\ ev.res \in Recoverable) => ENABLED LoopBack
       /\ (pc = "handled" /\ pc' = "select") =>
              (ev' = NoEvent /\ UNCHANGED <<loaded, engine, watch>>)
       /\ pc = "select" => CanService]_vars

\* the loop has gone on after it rejected a request for game for cooldown,
\* and has run the arm of the next request
C20_ServedAfterRejection ==
    /\ pc = "handled"
    /\ ev.kind = "unlock_request" /\ ev.name = "game" /\ ev.nth = 2
    /\ ev.res = "cooldown"

\* ------------------------------------------------------------------------
\* C21
\* ------------------------------------------------------------------------

\* the trigger of kind has been run once, for name, if it is configured
FiredOnce(fired, cmd, kind, name) ==
    fired = IF cmd = "none" THEN <<>> ELSE <<<<kind, name>>>>

\* the failures of commit
CommitFailures == {"io_read", "io_write", "io_save"}

\* no Static entry of the config has a last_unlocked or a last_locked record
StaticUnrecorded ==
    \A name \in DOMAIN config.entries :
        ~IsDynamic(config.entries[name]) =>
            name \notin DOMAIN last_unlocked /\ name \notin DOMAIN last_locked

\* C21: an unlock that succeeds and changes the state sets is_locked of the
\* entry to unlocked, records last_unlocked = now for a Dynamic entry and
\* nothing for a Static one (which never has a last_unlocked or last_locked
\* record), runs commit once and then runs the after_unlock trigger, if one is
\* configured, once with the name of the entry; the trigger is run only after
\* a commit that succeeded: never on a no-op, on a cooldown rejection or when
\* commit failed.
C21_UnlockEffects ==
    [][/\ \A name \in DOMAIN config.entries :
             RequestStep(name) =>
                 /\ (ev'.res = "ok" /\ ~AlreadyUnlocked(Engine, name)) =>
                        /\ name \in DOMAIN is_locked' /\ ~is_locked'[name]
                        /\ IF IsDynamic(config.entries[name])
                           THEN last_unlocked' = MapSet(last_unlocked, name, now)
                           ELSE UNCHANGED last_unlocked
                        /\ UNCHANGED last_locked
                        /\ ev'.commits = 1
                        /\ FiredOnce(ev'.fired, config.after_unlock, "after_unlock", name)
                 /\ (AlreadyUnlocked(Engine, name)
                        \/ CoolingDown(Engine, name, config.entries[name], now)) =>
                        ev'.fired = <<>> /\ ev'.commits = 0
                 /\ ev'.res \in CommitFailures => ev'.fired = <<>>
                 /\ ev'.fired # <<>> => ev'.res = "ok" /\ ev'.commits = 1
       /\ TickStep =>
             \A i \in 1..Len(ev'.fired) :
                 \E j \in 1..Len(ev'.attempts) :
                     /\ ev'.attempts[j][2] = ev'.fired[i][2]
                     /\ ev'.attempts[j][3] = "ok"
                     /\ ev'.fired[i][1] = IF ev'.attempts[j][1] = "unlock"
                                          THEN "after_unlock" ELSE "after_lock"
       /\ pc # "start" => StaticUnrecorded']_vars

\* a request has unlocked the Static entry news: commit has run, the trigger
\* has been run for news, and news has no last_unlocked record
C21_StaticUnlockedAndFired ==
    /\ pc = "handled"
    /\ ev.kind = "unlock_request" /\ ev.name = "news" /\ ev.res = "ok" /\ ev.commits = 1
    /\ ev.fired = <<<<"after_unlock", "news">>>>
    /\ "news" \in DOMAIN is_locked /\ ~is_locked["news"]
    /\ "news" \notin DOMAIN last_unlocked

\* ------------------------------------------------------------------------
\* C22
\* ------------------------------------------------------------------------

\* the trigger of kind has been run for name
Fired(fired, kind, name) == \E i \in 1..Len(fired) : fired[i] = <<kind, name>>

\* the State records name as locked
RecordedLocked(name) == name \in DOMAIN is_locked /\ is_locked[name]

\* whether the call update makes for an entry gets past its early returns,
\* the State being as it is before the tick
GetsToCommit(op, name) ==
    IF op = "lock" THEN ~RecordedLocked(name)
    ELSE /\ ~AlreadyUnlocked(Engine, name)
         /\ ~CoolingDown(Engine, name, config.entries[name], now)

\* C22: lock of an entry that is already locked is a no-op that returns
\* success: no timestamp changes, no commit runs, no trigger is run.  In every
\* other case, that of an entry without a record included, lock sets
\* is_locked to locked, records last_locked = now for a Dynamic entry and
\* nothing for a Static one, runs commit and, commit having succeeded, runs
\* the after_lock trigger if one is configured.  lock is never rejected for
\* cooldown.
C22_LockEffects ==
    [][TickStep =>
          /\ \A i \in 1..Len(ev'.attempts) :
                LET name == ev'.attempts[i][2]
                    res == ev'.attempts[i][3]
                IN  ev'.attempts[i][1] = "lock" =>
                        /\ res \in {"ok"} \cup IoFailures
                        /\ name \in DOMAIN is_locked' /\ is_locked'[name]
                        /\ Recorded(EmptyMap, last_unlocked', EmptyMap, name)
                               = Recorded(EmptyMap, last_unlocked, EmptyMap, name)
                        /\ IF RecordedLocked(name)
                           THEN /\ res = "ok"
                                /\ Recorded(is_locked', last_unlocked', last_locked', name)
                                       = Recorded(is_locked, last_unlocked, last_locked, name)
                                /\ ~Fired(ev'.fired, "after_lock", name)
                           ELSE /\ IF IsDynamic(config.entries[name])
                                   THEN last_locked'[name] = now
                                   ELSE name \notin DOMAIN last_locked'
                                /\ Fired(ev'.fired, "after_lock", name)
                                       = (res = "ok" /\ config.after_lock # "none")
          /\ ev'.commits =
                Cardinality({i \in 1..Len(ev'.attempts) :
                                GetsToCommit(ev'.attempts[i][1], ev'.attempts[i][2])})]_vars

\* a tick has locked game: commit has run, last_locked is the time of the
\* tick, and the after_lock trigger has been run for game
C22_LockedAndFired ==
    /\ pc = "handled" /\ ev.kind = "tick" /\ ev.res = "ok"
    /\ \E i \in 1..Len(ev.attempts) : ev.attempts[i] = <<"lock", "game", "ok">>
    /\ "game" \in DOMAIN is_locked /\ is_locked["game"]
    /\ "game" \in DOMAIN last_locked /\ last_locked["game"] = now
    /\ Fired(ev.fired, "after_lock", "game")
    /\ ev.commits >= 1

\* ------------------------------------------------------------------------
\* C23
\* ------------------------------------------------------------------------

\* the time of day t falls in the window: from begin up to end, over midnight
\* when begin >= end
FallsIn(window, t) ==
    IF window.begin < window.end
    THEN window.begin <= t /\ t < window.end
    ELSE t >= window.begin \/ t < window.end

\* the time t falls in at least one window of the Static entry
FallsInAny(entry, t) ==
    \E i \in 1..Len(entry.restriction.unlock) :
        FallsIn(entry.restriction.unlock[i], t % MinutesPerDay)

\* the call a tick has made for name has returned success
AttemptOk(attempts, name) ==
    \E i \in 1..Len(attempts) : attempts[i][2] = name /\ attempts[i][3] = "ok"

\* C23: after a tick whose call for a Static entry succeeded (commit
\* included), the entry is unlocked if the time of the tick falls in at least
\* one of its windows and locked otherwise, whatever it was before; so an
\* entry that a request unlocked outside its windows is locked by the next
\* tick.
C23_StaticFollowsWindows ==
    [][TickStep =>
          \A name \in DOMAIN config.entries :
              (~IsDynamic(config.entries[name]) /\ AttemptOk(ev'.attempts, name)) =>
                  /\ name \in DOMAIN is_locked'
                  /\ is_locked'[name] = ~FallsInAny(config.entries[name], now)]_vars

\* the case of C23 the source gets wrong: a tick at 21:50 has unlocked news,
\* whose only window is 22:00-06:00
C23_UnlockedOutsideWindow ==
    /\ pc = "handled" /\ ev.kind = "tick"
    /\ config = ConfigTriggers
    /\ now = HM(21, 50)
    /\ \E i \in 1..Len(ev.attempts) : ev.attempts[i] = <<"unlock", "news", "ok">>
    /\ "news" \in DOMAIN is_locked /\ ~is_locked["news"]
    /\ ~FallsInAny(config.entries["news"], now)

\* ------------------------------------------------------------------------
\* C24
\* ------------------------------------------------------------------------

\* the call a tick has made for name: "unlock" or "lock"
Attempted(attempts, name) ==
    attempts[CHOOSE i \in 1..Len(attempts) : attempts[i][2] = name][1]

\* the period of the Dynamic entry name, counted from last_unlocked, is over
Expired(name) ==
    /\ name \in DOMAIN last_unlocked
    /\ now >= last_unlocked[name] + config.entries[name].restriction.period

\* what a tick does with a Dynamic entry: it calls unlock iff there is no
\* last_unlocked record or now < last_unlocked + period, and lock otherwise;
\* an entry without any record is unlocked with last_unlocked = now; an entry
\* whose period is over is locked, its last_unlocked staying
TickOnDynamic(name) ==
    /\ Attempted(ev'.attempts, name) =
           IF name \notin DOMAIN last_unlocked
                  \/ now < last_unlocked[name] + config.entries[name].restriction.period
           THEN "unlock" ELSE "lock"
    /\ (name \notin DOMAIN last_unlocked /\ name \notin DOMAIN is_locked) =>
           /\ name \in DOMAIN is_locked' /\ ~is_locked'[name]
           /\ name \in DOMAIN last_unlocked' /\ last_unlocked'[name] = now
    /\ Expired(name) =>
           /\ name \in DOMAIN is_locked' /\ is_locked'[name]
           /\ last_unlocked'[name] = last_unlocked[name]

\* this step turns the Dynamic entry name, locked with its period over, into
\* an unlocked one
Reopens(name) ==
    /\ Expired(name)
    /\ RecordedLocked(name)
    /\ ~is_locked'[name]

\* C24 as stated: a tick wants a Dynamic entry unlocked iff no last_unlocked
\* is recorded or now < last_unlocked + period, and locked otherwise; an entry
\* without a record is unlocked by the first tick with last_unlocked = now;
\* and an entry whose period is over stays locked, on every later tick, until
\* an unlock request succeeds.
C24_DesiredDynamic ==
    [][\A name \in DOMAIN config.entries :
          IsDynamic(config.entries[name]) =>
              /\ TickStep => TickOnDynamic(name)
              /\ Reopens(name) => (RequestStep(name) /\ ev'.res = "ok")]_vars

\* C24 amended: as stated, but an entry whose period is over stays locked
\* until an unlock request for it gets past the cooldown test: the request
\* unlocks it whether it then succeeds or fails in commit or in the spawn of
\* the trigger.
C24_DesiredDynamicUntilRequest ==
    [][\A name \in DOMAIN config.entries :
          IsDynamic(config.entries[name]) =>
              /\ TickStep => TickOnDynamic(name)
              /\ Reopens(name) =>
                    /\ RequestStep(name)
                    /\ ev'.res \in {"ok"} \cup IoFailures
                    /\ ~CoolingDown(Engine, name, config.entries[name], now)]_vars

\* game, locked by a tick when its period was over, has been unlocked by a
\* request that failed writing /etc/hosts
C24_ReopenedByFailedRequest ==
    /\ pc = "handled"
    /\ ev.kind = "unlock_request" /\ ev.name = "game" /\ ev.res = "io_write"
    /\ "game" \in DOMAIN is_locked /\ ~is_locked["game"]
    /\ "game" \in DOMAIN last_locked /\ last_locked["game"] < now
    /\ last_unlocked["game"] = now

\* ------------------------------------------------------------------------
\* C25
\* ------------------------------------------------------------------------

\* this step is an arm of the loop in which commit ran and nothing failed
CommitOkStep == CommitStep /\ ev'.res = "ok"

\* C25: after a commit that succeeded, every domain of domain_map is marked
\* in /etc/hosts as is_locked has its entry (a locked line for a locked entry;
\* a commented line or no line for an unlocked entry or one without a
\* record); a domain that had no line has one afterwards iff its entry is
\* locked.
C25_CommitPostcondition ==
    [][CommitOkStep =>
          \A d \in DOMAIN domain_map :
              /\ HostsIsLocked(HostsParse(etc_hosts'), d)
                     = (/\ domain_map[d] \in DOMAIN is_locked'
                        /\ is_locked'[domain_map[d]])
              /\ HostsGet(HostsParse(etc_hosts), d) = 0 =>
                     (HostsGet(HostsParse(etc_hosts'), d) # 0)
                         = (/\ domain_map[d] \in DOMAIN is_locked'
                            /\ is_locked'[domain_map[d]])]_vars

\* the case of C25 the source gets wrong: a tick has locked news and its
\* commit has succeeded, and the line written for the domain "c d" is read
\* as a line of "c": /etc/hosts shows no locked line for "c d"
C25_LockedDomainUnmarked ==
    /\ pc = "handled" /\ ev.kind = "tick" /\ ev.res = "ok" /\ ev.writes = 1
    /\ DomTwoWords \in DOMAIN domain_map
    /\ is_locked[domain_map[DomTwoWords]]
    /\ Lines(etc_hosts)[Len(Lines(etc_hosts))] = host_line(DomTwoWords, TRUE)
    /\ ~HostsIsLocked(HostsParse(etc_hosts), DomTwoWords)

\* ------------------------------------------------------------------------
\* C26
\* ------------------------------------------------------------------------

\* the address token of a managed line: the first token, after the "#" of a
\* commented line
AddrToken(line) ==
    LET h == SpaceEnd(line, 1)
        a0 == IF h <= Len(line) /\ line[h] = "#" THEN SpaceEnd(line, h + 1) ELSE h
    IN  SubSeq(line, a0, TokenEnd(line, a0) - 1)

\* C26: a line commit rewrites for a domain keeps the address token the line
\* had before; the loopback address is written only on a line that commit
\* appends for a domain that had none.
C26_AddressKept ==
    [][CommitStep =>
          \A d \in DOMAIN domain_map :
              LET line == HostsGet(HostsParse(etc_hosts), d)
              IN  (/\ line # 0
                   /\ line <= Len(Lines(etc_hosts'))
                   /\ Lines(etc_hosts')[line] # Lines(etc_hosts)[line]) =>
                      AddrToken(Lines(etc_hosts')[line]) = AddrToken(Lines(etc_hosts)[line])]_vars

\* the case of C26 the source gets wrong: the line "0.0<tab>a x" that
\* /etc/hosts was started with has been rewritten as "# 127.0.0.1 a"
C26_AddressReplaced ==
    /\ pc = "handled" /\ ev.writes = 1
    /\ Len(Lines(etc_hosts)) = Len(Lines(StartHosts))
    /\ \A i \in {1, 3, 4} : Lines(etc_hosts)[i] = Lines(StartHosts)[i]
    /\ AddrToken(Lines(StartHosts)[2]) = <<"0", ".", "0">>
    /\ host(Lines(etc_hosts)[2]).domain = DomA
    /\ AddrToken(Lines(etc_hosts)[2]) = Loopback

\* ------------------------------------------------------------------------
\* C27
\* ------------------------------------------------------------------------

\* /etc/hosts as st has it marks every domain of domain_map as the State has
\* its entry
Agrees(st) ==
    \A d \in DOMAIN domain_map :
        HostsIsLocked(HostsParse(st.etc_hosts), d) = domanin_is_locked(Engine, d)

\* the commit of the file-watch event (first) and, if it wrote, the commit of
\* the event its write raised (second) write once at most, the second one
\* nothing, and leave /etc/hosts in agreement with the State
SettlesAfter(first, second) ==
    /\ first.res = "ok" /\ second.res = "ok"
    /\ second.writes <= 1
    /\ second.etc_hosts = first.etc_hosts
    /\ Agrees(second)

\* C27: there is no write loop: when a file-watch event waits at select!
\* (somebody else has edited /etc/hosts, or the daemon has written it) and the
\* State stays as it is, the commit of the event writes /etc/hosts once at
\* most, the commit of the event raised by that write writes nothing, and
\* /etc/hosts then agrees with the State for every domain of domain_map, no
\* event waiting.
C27_NoWriteLoop ==
    LET Second(first) == SettlesAfter(first, commit(first, "none"))
    IN  (pc = "select" /\ watch) => Second(commit(Engine, "none"))

\* the case of C27 the source gets wrong: the hosts_modified arm has appended
\* a line for the domain "c d" to a file that ended in such a line already,
\* written by the daemon, and the event of this write waits in turn
C27_AppendedAgain ==
    /\ pc = "handled" /\ ev.kind = "hosts_modified" /\ ev.res = "ok" /\ ev.writes = 1
    /\ watch
    /\ Len(Lines(etc_hosts)) = MaxLines
    /\ Lines(etc_hosts)[MaxLines] = host_line(DomTwoWords, TRUE)
    /\ Lines(etc_hosts)[MaxLines - 1] = host_line(DomTwoWords, TRUE)

\* ------------------------------------------------------------------------
\* C28
\* ------------------------------------------------------------------------

\* every Dynamic entry recorded as locked has a last_unlocked record, and its
\* period, counted from there, is over
LockedMeansExpired ==
    \A name \in DOMAIN config.entries :
        (IsDynamic(config.entries[name]) /\ RecordedLocked(name)) => Expired(name)

\* C28: in a daemon started on an empty State, the clock never going back and
\* lock being called by update only, a Dynamic entry that is locked has
\* now >= last_unlocked + period in every state; so a tick never calls unlock
\* for a locked Dynamic entry and never reports a cooldown rejection (these
\* come from unlock requests, or from a State decoded from a state file).
C28_LockedMeansExpired ==
    [][/\ now' >= now
       /\ LockedMeansExpired /\ LockedMeansExpired'
       /\ TickStep =>
             \A i \in 1..Len(ev'.attempts) :
                 /\ ev'.attempts[i][3] # "cooldown"
                 /\ (/\ ev'.attempts[i][1] = "unlock"
                     /\ IsDynamic(config.entries[ev'.attempts[i][2]])) =>
                        ~RecordedLocked(ev'.attempts[i][2])
       /\ ev'.res = "cooldown" => ev'.kind = "unlock_request"]_vars

\* a tick has found game locked, its period over and the lock of an earlier
\* tick in place, and has called lock for it, a no-op
C28_TickLeavesLocked ==
    /\ pc = "handled" /\ ev.kind = "tick" /\ ev.res = "ok" /\ ev.commits = 0
    /\ \E i \in 1..Len(ev.attempts) : ev.attempts[i] = <<"lock", "game", "ok">>
    /\ RecordedLocked("game")
    /\ last_locked["game"] < now
    /\ Expired("game")

\* ------------------------------------------------------------------------
\* C29
\* ------------------------------------------------------------------------

\* this step is a first unlock request for name that gets to commit
UnlockCommits(name) ==
    /\ UnlockStep(name)
    /\ ~(name \in DOMAIN is_locked /\ ~is_locked[name])
    /\ ~CoolingDown(Engine, name, config.entries[name], now)

\* the unlock of this step has left the new values in the State although its
\* commit failed, and has run no trigger
UnlockKept(name) ==
    /\ name \in DOMAIN is_locked' /\ ~is_locked'[name]
    /\ IsDynamic(config.entries[name]) => last_unlocked'[name] = now
    /\ ev'.fired = <<>>

\* the lock calls of this tick whose commit failed have left the new values
\* in the State and have run no trigger
LocksKept ==
    \A i \in 1..Len(ev'.attempts) :
        LET name == ev'.attempts[i][2]
        IN  (ev'.attempts[i][1] = "lock" /\ ev'.attempts[i][3] \in CommitFailures) =>
                /\ name \in DOMAIN is_locked' /\ is_locked'[name]
                /\ IsDynamic(config.entries[name]) => last_locked'[name] = now
                /\ ~Fired(ev'.fired, "after_lock", name)

\* the same call made again right after the one whose commit failed: a no-op
\* that returns success and runs no commit
RepeatIsNoOp == (SecondCall /\ ev.res \in CommitFailures) => (ev'.res = "ok" /\ NoOp)

\* some domain of name is marked in /etc/hosts otherwise than is_locked has name
OutOfSync(text, locked, name) ==
    \E d \in DOMAIN domain_map :
        /\ domain_map[d] = name
        /\ HostsIsLocked(HostsParse(text), d) # locked

\* C29 as stated: a commit that fails inside unlock or lock is not rolled
\* back: is_locked (and last_unlocked or last_locked of a Dynamic entry) hold
\* the new value, the trigger is not run, the same call made again is a no-op
\* that runs no commit, and /etc/hosts is out of sync with is_locked.
C29_NoRollbackOutOfSync ==
    [][/\ \A name \in DOMAIN config.entries :
             (UnlockCommits(name) /\ ev'.res \in CommitFailures) =>
                 /\ UnlockKept(name)
                 /\ OutOfSync(etc_hosts', FALSE, name)
       /\ TickStep => LocksKept
       /\ RepeatIsNoOp]_vars

\* C29 amended: a commit that fails inside unlock or lock is not rolled back:
\* is_locked (and last_unlocked or last_locked of a Dynamic entry) hold the
\* new value, the trigger is not run, and the same call made again is a no-op
\* that runs no commit.  When commit failed reading or writing /etc/hosts the
\* file is as it was, so that a domain marked otherwise than the new value
\* stays so; when it failed writing the state file, /etc/hosts has been
\* written and it is the state file that is left as it was.
C29_NoRollback ==
    [][/\ \A name \in DOMAIN config.entries :
             (UnlockCommits(name) /\ ev'.res \in CommitFailures) =>
                 /\ UnlockKept(name)
                 /\ state_file' = state_file
                 /\ IF ev'.res = "io_save"
                    THEN ev'.writes = 1 /\ etc_hosts' # etc_hosts
                    ELSE ev'.writes = 0 /\ etc_hosts' = etc_hosts
       /\ TickStep =>
             /\ LocksKept
             /\ (ev'.writes = 0 /\ ev'.saves = 0) => UNCHANGED <<etc_hosts, state_file>>
       /\ RepeatIsNoOp]_vars

\* a request unlocked game, its commit failed writing /etc/hosts, the same
\* request made again has returned success without a commit, and the line of
\* a still shows game locked
C29_RepeatedAfterFailure ==
    /\ pc = "handled"
    /\ ev.kind = "unlock_request" /\ ev.name = "game" /\ ev.nth = 2
    /\ ev.res = "ok" /\ ev.commits = 0
    /\ "game" \in DOMAIN is_locked /\ ~is_locked["game"]
    /\ last_unlocked["game"] = now
    /\ OutOfSync(etc_hosts, FALSE, "game")

====
